---------------------------- MODULE Spec2Model ----------------------------
(***************************************************************************)
(* A model of the schema-management API of main.py: the request            *)
(* validators, the line-based editors of the model file (models.py), the   *)
(* migration driver and the endpoints that combine them.                   *)
(*                                                                         *)
(* Text is modelled as text: a line of the model file is a string ending   *)
(* with "\n", the file is the sequence of its lines (what readlines()      *)
(* returns), and the editors are translated with the string operations     *)
(* the code uses (substring test, startswith, strip, split, replace).      *)
(* Line numbers are kept 0-based as in the code; At(lines, i) is lines[i]. *)
(***************************************************************************)
EXTENDS Integers, Sequences, FiniteSets, TLC

VARIABLES
    file,       \* lines of /app/models.py on disk
    tmpfile,    \* lines of /app/models.py.tmp (<<>> when absent)
    lock,       \* holder of /app/models.py.lock: a request id, or 0 when free
    loaded,     \* the lines the imported module "models" was last evaluated from
    req,        \* the request being answered when requests come one at a time
    handled,    \* number of requests received so far
    procs       \* the requests in progress when they are handled concurrently

vars == <<file, tmpfile, lock, loaded, req, handled, procs>>

-----------------------------------------------------------------------------
(* Python str operations *)

UpperLetters == "ABCDEFGHIJKLMNOPQRSTUVWXYZ"
LowerLetters == "abcdefghijklmnopqrstuvwxyz"
Digits == "0123456789"

Chars(s) == {SubSeq(s, i, i) : i \in 1..Len(s)}

UpperSet == Chars(UpperLetters)
LowerSet == Chars(LowerLetters)
WordChars == UpperSet \cup LowerSet \cup Chars(Digits) \cup {"_"}

LowerChar(c) ==
    IF c \in UpperSet
    THEN LET i == CHOOSE k \in 1..Len(UpperLetters) : SubSeq(UpperLetters, k, k) = c
         IN  SubSeq(LowerLetters, i, i)
    ELSE c

UpperChar(c) ==
    IF c \in LowerSet
    THEN LET i == CHOOSE k \in 1..Len(LowerLetters) : SubSeq(LowerLetters, k, k) = c
         IN  SubSeq(UpperLetters, i, i)
    ELSE c

RECURSIVE Lower(_)
Lower(s) == IF s = "" THEN "" ELSE LowerChar(Head(s)) \o Lower(Tail(s))

\* str.capitalize(): first character upper-cased, the rest lower-cased
Capitalize(s) == IF s = "" THEN "" ELSE UpperChar(Head(s)) \o Lower(Tail(s))

IsSpace(c) == c \in {" ", "\n", "\t"}

RECURSIVE LStrip(_)
LStrip(s) == IF s # "" /\ IsSpace(Head(s)) THEN LStrip(Tail(s)) ELSE s

RECURSIVE RStrip(_)
RStrip(s) ==
    IF s # "" /\ IsSpace(SubSeq(s, Len(s), Len(s)))
    THEN RStrip(SubSeq(s, 1, Len(s) - 1))
    ELSE s

Strip(s) == RStrip(LStrip(s))

StartsWith(s, p) == Len(p) <= Len(s) /\ SubSeq(s, 1, Len(p)) = p

RECURSIVE FindFrom(_, _, _)
FindFrom(s, sub, i) ==
    IF i + Len(sub) - 1 > Len(s) THEN 0
    ELSE IF SubSeq(s, i, i + Len(sub) - 1) = sub THEN i
    ELSE FindFrom(s, sub, i + 1)

\* 1-based position of the first occurrence of sub in s, 0 when there is none
Find(s, sub) == FindFrom(s, sub, 1)

RECURSIVE RFindFrom(_, _, _)
RFindFrom(s, sub, i) ==
    IF i < 1 THEN 0
    ELSE IF SubSeq(s, i, i + Len(sub) - 1) = sub THEN i
    ELSE RFindFrom(s, sub, i - 1)

\* position of the last occurrence of sub in s, 0 when there is none
RFind(s, sub) == RFindFrom(s, sub, Len(s) - Len(sub) + 1)

\* Python's "sub in s"
Contains(s, sub) == Find(s, sub) # 0

\* str.replace(old, new) for a non-empty old: every occurrence, left to right
RECURSIVE Replace(_, _, _)
Replace(s, old, new) ==
    IF Len(s) < Len(old) THEN s
    ELSE IF SubSeq(s, 1, Len(old)) = old
         THEN new \o Replace(SubSeq(s, Len(old) + 1, Len(s)), old, new)
         ELSE Head(s) \o Replace(Tail(s), old, new)

\* str.split(sep)
RECURSIVE Split(_, _)
Split(s, sep) ==
    LET i == Find(s, sep)
    IN  IF i = 0 THEN <<s>>
        ELSE <<SubSeq(s, 1, i - 1)>> \o Split(SubSeq(s, i + Len(sep), Len(s)), sep)

\* str.split(sep, 1)
SplitOnce(s, sep) ==
    LET i == Find(s, sep)
    IN  IF i = 0 THEN <<s>>
        ELSE <<SubSeq(s, 1, i - 1), SubSeq(s, i + Len(sep), Len(s))>>

\* str.rsplit(sep, 1)
RSplitOnce(s, sep) ==
    LET i == RFind(s, sep)
    IN  IF i = 0 THEN <<s>>
        ELSE <<SubSeq(s, 1, i - 1), SubSeq(s, i + Len(sep), Len(s))>>

\* sep.join(parts)
RECURSIVE Join(_, _)
Join(parts, sep) ==
    IF parts = <<>> THEN ""
    ELSE IF Len(parts) = 1 THEN parts[1]
    ELSE parts[1] \o sep \o Join(Tail(parts), sep)

\* re.match(r"^[A-Za-z_][A-Za-z0-9_]*$", v)
IsIdentifier(v) ==
    /\ v # ""
    /\ Head(v) \in UpperSet \cup LowerSet \cup {"_"}
    /\ Chars(v) \subseteq WordChars

\* re.match(r"^[a-z_][a-z0-9_]*$", v)
IsLowerIdentifier(v) ==
    /\ v # ""
    /\ Head(v) \in LowerSet \cup {"_"}
    /\ Chars(v) \subseteq LowerSet \cup Chars(Digits) \cup {"_"}


-----------------------------------------------------------------------------
(* Request validators.  An Optional[str] is <<>> (None) or <<s>>; a         *)
(* validator yields <<>> when it raises ValueError and <<value>> otherwise. *)

None == <<>>
Some(v) == <<v>>

AllowedTypes == {"Integer", "String", "Float", "Boolean", "Date", "Text"}

AllowedAttributes ==
    {"primary_key", "nullable", "unique", "index", "default", "server_default",
     "autoincrement", "foreign_key", "comment", ""}

PrimaryKeyMarker == "primary_key=True"

StripAll(parts) == [i \in 1..Len(parts) |-> Strip(parts[i])]

\* ColumnDefinition.validate_name
ColumnName(v) ==
    LET n == Lower(Replace(Strip(v), " ", ""))
    IN  IF IsIdentifier(n) THEN Some(n) ELSE None

\* ColumnDefinition.validate_type
ColumnType(v) ==
    LET t == Capitalize(Split(Strip(v), ",")[1])
    IN  IF t \in AllowedTypes THEN Some(t) ELSE None

\* ColumnDefinition.validate_attributes, for a string
ColumnAttributes(v) ==
    LET attr_parts == StripAll(Split(v, ","))
    IN  IF \A i \in 1..Len(attr_parts) :
              Strip(Split(attr_parts[i], "=")[1]) \in AllowedAttributes
        THEN Some(Join(attr_parts, ", "))
        ELSE None

\* CreateTableRequest.validate_table_name, RenameTableRequest.validate_table_names
TableName(v) ==
    LET n == Capitalize(Replace(Strip(v), " ", "_"))
    IN  IF IsIdentifier(n) THEN Some(n) ELSE None

\* validate_sql_identifier
SqlIdentifier(v) ==
    LET n == Replace(Lower(v), " ", "")
    IN  IF IsLowerIdentifier(n) THEN Some(n) ELSE None

\* ColumneditDefinition.validate_type, EditColumnRequest.validate_type
EditType(v) ==
    LET t == Capitalize(Strip(v))
    IN  IF t \in AllowedTypes THEN Some(t) ELSE None

RECURSIVE WordPrefixLen(_)
WordPrefixLen(s) ==
    IF s # "" /\ Head(s) \in WordChars THEN 1 + WordPrefixLen(Tail(s)) ELSE 0

\* re.match(r"^\w+\s*=\s*.+$", part)
IsKeyValue(part) ==
    LET k == WordPrefixLen(part)
        r == LStrip(SubSeq(part, k + 1, Len(part)))
    IN  /\ k >= 1
        /\ StartsWith(r, "=")
        /\ Len(r) >= 2
        /\ ~Contains(Tail(r), "\n")

\* ColumneditDefinition.validate_attributes, EditColumnRequest.validate_attributes
EditAttributes(v) ==
    IF v = "" THEN Some(v)
    ELSE LET attr_parts == StripAll(Split(v, ","))
         IN  IF \A i \in 1..Len(attr_parts) : IsKeyValue(attr_parts[i])
             THEN Some(Join(attr_parts, ", "))
             ELSE None

\* An Optional field through a validator that is skipped for None
Opt(validated, v) == IF v = None THEN Some(None) ELSE
                     IF validated = None THEN None ELSE Some(validated)

\* a field of the body that may be left out: its value, None by default
Field(c, f) == IF f \in DOMAIN c THEN c[f] ELSE None

\* ColumnDefinition: the validated column, or <<>> when a validator raises.
\* validate_attributes runs before the type check on every value that is sent,
\* null included, and raises for what is neither a string nor a list; it does
\* not run on the default of a field that is left out.
ColumnDefinition(c) ==
    LET n == ColumnName(c.name)
        t == ColumnType(c.type)
        a == IF "attributes" \notin DOMAIN c THEN Some(None)
             ELSE IF c.attributes = None THEN None
             ELSE Opt(ColumnAttributes(c.attributes[1]), c.attributes)
    IN  IF n = None \/ t = None \/ a = None THEN None
        ELSE Some([name |-> n[1], type |-> t[1], attributes |-> a[1]])

\* col.attributes or ""
OrEmpty(o) == IF o = None THEN "" ELSE o[1]

\* ensure_primary_key asking only for a column
EnsureColumns(cols) == cols # <<>>

\* ensure_primary_key with all() in place of any()
EnsureEveryPrimaryKey(cols) ==
    \A i \in 1..Len(cols) : Contains(OrEmpty(cols[i].attributes), PrimaryKeyMarker)

\* CreateTableRequest.ensure_primary_key
EnsurePrimaryKey(cols) ==
    \E i \in 1..Len(cols) : Contains(OrEmpty(cols[i].attributes), PrimaryKeyMarker)

\* CreateTableRequest: [table_name, columns] validated, or <<>> (a 422 response)
CreateTableRequest(r) ==
    LET n == TableName(r.table_name)
        cs == [i \in 1..Len(r.columns) |-> ColumnDefinition(r.columns[i])]
    IN  IF n = None \/ \E i \in 1..Len(cs) : cs[i] = None THEN None
        ELSE LET cols == [i \in 1..Len(cs) |-> cs[i][1]]
             IN  IF EnsurePrimaryKey(cols)
                 THEN Some([table_name |-> n[1], columns |-> cols])
                 ELSE None

\* ColumneditDefinition
ColumneditDefinition(c) ==
    LET n == SqlIdentifier(c.name)
        t == EditType(c.type)
        a == IF Field(c, "attributes") = None THEN Some(None)
             ELSE Opt(EditAttributes(c.attributes[1]), c.attributes)
    IN  IF n = None \/ t = None \/ a = None THEN None
        ELSE Some([name |-> n[1], type |-> t[1], attributes |-> a[1]])

\* EditColumnRequest: new_name, new_type and new_attributes are Optional
EditColumnRequest(c) ==
    LET n  == IF c.name = "" THEN Some("") ELSE SqlIdentifier(c.name)
        nn == IF c.new_name = None \/ c.new_name = Some("") THEN Some(c.new_name)
              ELSE Opt(SqlIdentifier(c.new_name[1]), c.new_name)
        nt == IF c.new_type = None \/ c.new_type = Some("") THEN Some(c.new_type)
              ELSE Opt(EditType(c.new_type[1]), c.new_type)
        na == IF c.new_attributes = None THEN Some(None)
              ELSE Opt(EditAttributes(c.new_attributes[1]), c.new_attributes)
    IN  IF n = None \/ nn = None \/ nt = None \/ na = None THEN None
        ELSE Some([name |-> n[1], new_name |-> nn[1], new_type |-> nt[1],
                   new_attributes |-> na[1]])

\* EditTableRequest: the three lists are given (possibly empty); table_name is
\* only capitalized
EditTableRequest(r) ==
    LET adds  == [i \in 1..Len(r.add_columns) |-> ColumneditDefinition(r.add_columns[i])]
        edits == [i \in 1..Len(r.edit_columns) |-> EditColumnRequest(r.edit_columns[i])]
    IN  IF \/ \E i \in 1..Len(adds) : adds[i] = None
           \/ \E i \in 1..Len(edits) : edits[i] = None
        THEN None
        ELSE Some([table_name |-> Capitalize(r.table_name),
                   add_columns |-> [i \in 1..Len(adds) |-> adds[i][1]],
                   delete_columns |-> r.delete_columns,
                   edit_columns |-> [i \in 1..Len(edits) |-> edits[i][1]]])

\* RenameTableRequest
RenameTableRequest(r) ==
    LET o == TableName(r.old_name)
        n == TableName(r.new_name)
    IN  IF o = None \/ n = None THEN None
        ELSE Some([old_name |-> o[1], new_name |-> n[1]])

\* DeleteTableRequest: table_name is only capitalized
DeleteTableRequest(r) == Some([table_name |-> Capitalize(r.table_name)])

-----------------------------------------------------------------------------
(* The model file as lines, and the editors.  An editor yields              *)
(* [raised, lines]: raised is NoErr when it returns normally and lines is   *)
(* what it writes; else raised is the status of the HTTPException it raises *)
(* (ValueErr for rename's ValueError, IndexErr for an IndexError) and lines *)
(* is the line buffer at that moment.                                       *)

NoErr == "none"
ValueErr == "ValueError"
IndexErr == "IndexError"

At(lines, i) == lines[i + 1]

RECURSIVE Concat(_)
Concat(lines) == IF lines = <<>> THEN "" ELSE Head(lines) \o Concat(Tail(lines))

\* str.splitlines(keepends=True), as readlines() splits the text of a file
RECURSIVE SplitLines(_)
SplitLines(text) ==
    LET i == Find(text, "\n")
    IN  IF text = "" THEN <<>>
        ELSE IF i = 0 THEN <<text>>
        ELSE <<SubSeq(text, 1, i)>> \o SplitLines(SubSeq(text, i + 1, Len(text)))

\* file.writelines(lines) followed by a later readlines(): the list items are
\* written back to back and the text is split at its newlines again
Writelines(lines) ==
    IF \A i \in 1..Len(lines) :
          /\ Find(lines[i], "\n") = Len(lines[i])
          /\ lines[i] # ""
    THEN lines
    ELSE SplitLines(Concat(lines))

\* the column line both add_table_to_models and edit_table_in_models build
ColumnLine(name, type, attributes) ==
    "    " \o name \o " = Column(" \o type
      \o (IF attributes # "" THEN ", " \o attributes ELSE "") \o ")\n"

ClassMatch(line, table_name) == Contains(line, "class " \o table_name)

\* add_table_to_models, lines 525-549
AddTableToModels(lines, table_name, columns) ==
    IF \E i \in 1..Len(lines) : ClassMatch(lines[i], table_name)
    THEN [raised |-> "400", lines |-> lines]
    ELSE [raised |-> NoErr,
          lines |-> lines
                    \o <<"\n\nclass " \o table_name \o "(Base):\n",
                         "    __tablename__ = '" \o Lower(table_name) \o "'\n">>
                    \o [i \in 1..Len(columns) |->
                          ColumnLine(columns[i].name, columns[i].type,
                                     columns[i].attributes)]]

\* The scan for the class block: model_start is the last matching line seen
\* before the scan stops, model_end the first blank line at or after the first
\* match (len(lines) when there is none).  <<>> when no line matches.
ModelBlock(lines, table_name) ==
    LET n == Len(lines)
        matches == {i \in 0..(n - 1) : ClassMatch(At(lines, i), table_name)}
    IN  IF matches = {} THEN None
        ELSE LET first == CHOOSE i \in matches : \A j \in matches : i <= j
                 blanks == {i \in first..(n - 1) : Strip(At(lines, i)) = ""}
                 found  == blanks # {}
                 stop   == IF found
                           THEN CHOOSE i \in blanks : \A j \in blanks : i <= j
                           ELSE n
                 seen   == {i \in matches : i <= stop}
             IN  Some([model_start |-> CHOOSE i \in seen : \A j \in seen : j <= i,
                       model_end |-> stop])

IsColumnLine(line, col) == StartsWith(Strip(line), col \o " = Column(")

\* delete_table_from_models, lines 1245-1288
DeleteTableFromModels(lines, table_name) ==
    LET b == ModelBlock(lines, table_name)
    IN  IF b = None THEN [raised |-> "404", lines |-> lines]
        ELSE [raised |-> NoErr,
              lines |-> SubSeq(lines, 1, b[1].model_start)
                        \o SubSeq(lines, b[1].model_end + 2, Len(lines))]

\* re.compile(rf"class\s+{old_name}\s*\(.*\):").match(line)
ClassPattern(line, old_name) ==
    /\ StartsWith(line, "class")
    /\ LET r1 == SubSeq(line, 6, Len(line))
           r2 == LStrip(r1)
       IN  /\ r2 # r1
           /\ StartsWith(r2, old_name)
           /\ LET r3 == LStrip(SubSeq(r2, Len(old_name) + 1, Len(r2)))
              IN  /\ StartsWith(r3, "(")
                  /\ Contains(SplitOnce(SubSeq(r3, 2, Len(r3)), "\n")[1], "):")

\* re.compile(rf"__tablename__\s*=\s*'{old_name.lower()}'").search(line)
TablenamePattern(line, old_lower) ==
    \E i \in 1..Len(line) :
        /\ i + 12 <= Len(line)
        /\ SubSeq(line, i, i + 12) = "__tablename__"
        /\ LET r1 == LStrip(SubSeq(line, i + 13, Len(line)))
           IN  /\ StartsWith(r1, "=")
               /\ StartsWith(LStrip(Tail(r1)), "'" \o old_lower \o "'")

\* one iteration of the loop of rename_table_in_models, lines 1132-1138
RenameLine(line, old_name, new_name) ==
    LET l1 == IF ClassPattern(line, old_name)
              THEN Replace(line, old_name, new_name)
              ELSE line
    IN  IF TablenamePattern(line, Lower(old_name))
        THEN Replace(line, Lower(old_name), Lower(new_name))
        ELSE l1

\* rename_table_in_models, lines 1120-1144
RenameTableInModels(lines, old_name, new_name) ==
    LET class_renamed == \E i \in 1..Len(lines) : ClassPattern(lines[i], old_name)
        tablename_renamed ==
            \E i \in 1..Len(lines) : TablenamePattern(lines[i], Lower(old_name))
    IN  IF ~(class_renamed /\ tablename_renamed)
        THEN [raised |-> ValueErr, lines |-> lines]
        ELSE [raised |-> NoErr,
              lines |-> [i \in 1..Len(lines) |->
                            RenameLine(lines[i], old_name, new_name)]]

\* list.insert(pos, x)
Insert(lines, pos, x) ==
    IF pos >= Len(lines) THEN Append(lines, x)
    ELSE SubSeq(lines, 1, pos) \o <<x>> \o SubSeq(lines, pos + 1, Len(lines))

RECURSIVE InsertAll(_, _, _)
InsertAll(lines, insert_position, cols) ==
    IF cols = <<>> THEN lines
    ELSE InsertAll(Insert(lines, insert_position,
                          ColumnLine(Head(cols).name, Head(cols).type,
                                     OrEmpty(Head(cols).attributes))),
                   insert_position + 1, Tail(cols))

\* the items of lines whose 0-based index is in keep, in order
RECURSIVE Kept(_, _, _)
Kept(lines, i, keep) ==
    IF i >= Len(lines) THEN <<>>
    ELSE (IF i \in keep THEN <<At(lines, i)>> ELSE <<>>) \o Kept(lines, i + 1, keep)

\* [attr.strip() for attr in s.split(",") if attr.strip()]
AttrList(s) == SelectSeq(StripAll(Split(s, ",")), LAMBDA a : a # "")

\* the items of a sequence without repetitions, first occurrences kept
RECURSIVE Distinct(_)
Distinct(q) ==
    IF q = <<>> THEN <<>>
    ELSE LET d == Distinct(SubSeq(q, 1, Len(q) - 1))
             x == q[Len(q)]
         IN  IF \E i \in 1..Len(d) : d[i] = x THEN d ELSE Append(d, x)

\* ", ".join(set(a).union(b)): a set of strings is iterated in an order the
\* interpreter's string hashing fixes per process, so every order is possible
JoinedSet(a, b) ==
    LET d == Distinct(a \o b)
        n == Len(d)
    IN  {Join([i \in 1..n |-> d[f[i]]], ", ") :
            f \in {g \in [1..n -> 1..n] : \A i, j \in 1..n : g[i] = g[j] => i = j}}

\* one iteration of "for col in edit_columns", lines 790-844
EditColumn(lines, model_start, model_end, col) ==
    LET last == IF model_end < Len(lines) THEN model_end ELSE Len(lines)
        hits == {i \in model_start..(last - 1) : IsColumnLine(At(lines, i), col.name)}
    IN  IF hits = {}
        THEN {[raised |-> IF model_end > Len(lines) THEN IndexErr ELSE "404",
               lines |-> lines]}
        ELSE LET i == CHOOSE k \in hits : \A j \in hits : k <= j
                 line == Strip(At(lines, i))
                 current_attributes ==
                     RSplitOnce(SplitOnce(line, "(")[2], ")")[1]
                 existing_type_and_attrs == SplitOnce(current_attributes, ",")
                 existing_type == Strip(existing_type_and_attrs[1])
                 existing_attrs == IF Len(existing_type_and_attrs) = 2
                                   THEN existing_type_and_attrs[2] ELSE ""
                 final_type == IF col.new_type # None THEN col.new_type[1]
                               ELSE existing_type
                 final_name == IF col.new_name # None /\ col.new_name[1] # ""
                               THEN col.new_name[1] ELSE col.name
             IN  {[raised |-> NoErr,
                   lines |-> [lines EXCEPT ![i + 1] =
                                 ColumnLine(final_name, final_type, combined_attrs)]] :
                    combined_attrs \in JoinedSet(AttrList(existing_attrs),
                                                 AttrList(OrEmpty(col.new_attributes)))}

RECURSIVE EditColumns(_, _, _, _)
EditColumns(lines, model_start, model_end, cols) ==
    IF cols = <<>> THEN {[raised |-> NoErr, lines |-> lines]}
    ELSE UNION {IF r.raised = NoErr
                THEN EditColumns(r.lines, model_start, model_end, Tail(cols))
                ELSE {r} :
                  r \in EditColumn(lines, model_start, model_end, Head(cols))}

\* the check of lines 748-760 finding no primary key
PrimaryKeysUnchecked(lines, model_start, model_end, delete_columns) == {}

\* the check of lines 748-760: the delete_columns whose line in the block
\* carries the primary-key marker
PrimaryKeys(lines, model_start, model_end, delete_columns) ==
    {c \in 1..Len(delete_columns) :
        \E i \in model_start..(model_end - 1) :
            /\ IsColumnLine(At(lines, i), delete_columns[c])
            /\ Contains(Strip(At(lines, i)), PrimaryKeyMarker)}

\* lines 762-775
DeleteColumns(lines, model_start, model_end, delete_columns) ==
    IF delete_columns = <<>> THEN lines
    ELSE Kept(lines, 0,
              {i \in 0..(Len(lines) - 1) :
                  \/ ~\E c \in 1..Len(delete_columns) :
                        IsColumnLine(At(lines, i), delete_columns[c])
                  \/ i < model_start
                  \/ i >= model_end})

\* lines 777-787
AddColumns(lines, model_end, add_columns) ==
    InsertAll(lines, model_end - 1, add_columns)

\* the locked section of edit_table_in_models, lines 723-844: the possible
\* outcomes (one per order in which the attribute sets are joined)
EditTableInModels(lines, table_name, add_columns, edit_columns, delete_columns) ==
    LET b == ModelBlock(lines, table_name)
    IN  IF b = None THEN {[raised |-> "404", lines |-> lines]}
        ELSE LET model_start == b[1].model_start
                 model_end == b[1].model_end
             IN  IF PrimaryKeys(lines, model_start, model_end, delete_columns) # {}
                 THEN {[raised |-> "400", lines |-> lines]}
                 ELSE EditColumns(
                        AddColumns(DeleteColumns(lines, model_start, model_end,
                                                 delete_columns),
                                   model_end, add_columns),
                        model_start, model_end, edit_columns)

-----------------------------------------------------------------------------
(* parse_models_file, for the statements the editors write: class headers,  *)
(* and in a class body one assignment per line.                             *)

\* a top-level statement: the line is not blank and not indented
IsTopLevel(line) == Strip(line) # "" /\ ~IsSpace(Head(line))

\* ast.ClassDef: the header of a class statement
IsClassDef(line) == StartsWith(line, "class ") /\ Contains(line, "(")

\* node.name
ClassName(line) == Strip(SplitOnce(SubSeq(line, 7, Len(line)), "(")[1])

\* the 1-based indices of node.body: the lines after header i up to the next
\* top-level statement
RECURSIVE ClassBody(_, _)
ClassBody(lines, i) ==
    IF i + 1 > Len(lines) \/ IsTopLevel(lines[i + 1]) THEN <<>>
    ELSE <<i + 1>> \o ClassBody(lines, i + 1)

\* a keyword value as kw.value.s or kw.value.id renders it
Unquote(v) ==
    IF Len(v) >= 2 /\ Head(v) \in {"'", "\""} /\ SubSeq(v, Len(v), Len(v)) = Head(v)
    THEN SubSeq(v, 2, Len(v) - 1) ELSE v

\* the keyword arguments of a call, each rendered as key=value
Keywords(args) ==
    LET kws == SelectSeq(args, LAMBDA a : Contains(a, "="))
    IN  [i \in 1..Len(kws) |->
            Strip(SplitOnce(kws[i], "=")[1]) \o "="
              \o Unquote(Strip(SplitOnce(kws[i], "=")[2]))]

\* lines 1187-1238: the column an assignment statement is reported as, <<>>
\* for __tablename__ and for a line that is no assignment
ParsedColumn(line) ==
    LET stmt == Strip(line)
        parts == SplitOnce(stmt, "=")
        col_name == Strip(parts[1])
        value == IF Len(parts) = 2 THEN Strip(parts[2]) ELSE ""
    IN  IF Len(parts) < 2 \/ ~IsIdentifier(col_name) \/ col_name = "__tablename__"
        THEN None
        ELSE IF StartsWith(value, "Column(") /\ RFind(value, ")") = Len(value)
        THEN LET args == StripAll(Split(SubSeq(value, 8, Len(value) - 1), ","))
                 names == SelectSeq(args, IsIdentifier)
             IN  Some([name |-> col_name,
                       type |-> IF names = <<>> THEN "Column" ELSE names[1],
                       attributes |-> Join(Keywords(args), ", ")])
        ELSE Some([name |-> col_name, type |-> "UnknownType", attributes |-> ""])

RECURSIVE ParsedColumns(_, _)
ParsedColumns(lines, body) ==
    IF body = <<>> THEN <<>>
    ELSE ParsedColumn(lines[Head(body)]) \o ParsedColumns(lines, Tail(body))

\* parse_models_file, lines 1174-1242: the inventory, one entry per class
\* statement in file order
RECURSIVE ParseFrom(_, _)
ParseFrom(lines, i) ==
    IF i > Len(lines) THEN <<>>
    ELSE (IF IsClassDef(lines[i])
          THEN <<[table_name |-> Lower(ClassName(lines[i])),
                  columns |-> ParsedColumns(lines, ClassBody(lines, i))]>>
          ELSE <<>>) \o ParseFrom(lines, i + 1)

ParseModelsFile(lines) == ParseFrom(lines, 1)

-----------------------------------------------------------------------------
(* The shipped models.py.  Its import preamble (lines 1-19) is cut down to  *)
(* its last line: no editor matches a line before the first class line.     *)

ModelsPy ==
    <<"Base = declarative_base()\n",
      "\n",
      "\n",
      "class Xs(Base):\n",
      "    __tablename__ = 'xs'\n",
      "    dcdc = Column(String, primary_key=True)\n",
      "\n",
      "\n",
      "\n",
      "\n",
      "class Fff(Base):\n",
      "    __tablename__ = 'fff'\n",
      "    dddd = Column(Integer, primary_key=True)">>

-----------------------------------------------------------------------------
(* Request bodies the callers send *)

\* requests sent to the server in one run
MaxRequests == 2

\* the model file is not grown beyond this many lines
MaxLines == 24

\* requests the server's thread pool runs at the same time
MaxThreads == 2

\* columns in one create request of the validation runs
MaxColumns == 2

RawTableNames == {"xs", "x", "name"}

RawColumns ==
    [id    |-> [name |-> "id", type |-> "integer", attributes |-> Some("primary_key=True")],
     key   |-> [name |-> "key", type |-> "Integer", attributes |-> Some("primary_key=True")],
     email |-> [name |-> "Email", type |-> "string"],
     nick  |-> [name |-> "nick", type |-> "String", attributes |-> Some("default='x'")],
     age   |-> [name |-> "age", type |-> "Integer"]]

CreateBodies ==
    {[table_name |-> t, columns |-> cs] :
        t \in RawTableNames,
        cs \in {<<RawColumns.id>>, <<RawColumns.id, RawColumns.email>>,
                <<RawColumns.email>>, <<RawColumns.id, RawColumns.key>>,
                <<RawColumns.id, RawColumns.nick>>}}

EditColumnBodies ==
    {[name |-> "email", new_name |-> None, new_type |-> None,
      new_attributes |-> Some("nullable=False")],
     [name |-> "email", new_name |-> Some("mail"), new_type |-> Some("text"),
      new_attributes |-> None],
     [name |-> "dcdc", new_name |-> None, new_type |-> None,
      new_attributes |-> Some("index=True")],
     [name |-> "dcdc", new_name |-> None, new_type |-> None,
      new_attributes |-> Some("primary_key=False")]}

EditBodies ==
    {[table_name |-> t, add_columns |-> a, delete_columns |-> d, edit_columns |-> e] :
        t \in RawTableNames,
        a \in {<<>>, <<RawColumns.age>>, <<RawColumns.age, RawColumns.nick>>},
        d \in {<<>>, <<"email">>, <<"id">>, <<"dcdc">>, <<"dddd">>, <<"email", "dcdc">>,
               <<"age", "nick">>, <<"ghost">>},
        e \in {<<>>} \cup {<<c>> : c \in EditColumnBodies}}

RenameBodies ==
    {[old_name |-> o, new_name |-> n] :
        o \in RawTableNames \cup {"fff"}, n \in RawTableNames \cup {"fff"}}

DeleteBodies == {[table_name |-> t] : t \in RawTableNames}

-----------------------------------------------------------------------------
(* The endpoints, one request at a time.  What the migration tool and the   *)
(* import of models.py do is outside this program: each of the handler's    *)
(* external calls ("reload", "upgrade", "revision") may fail; fail is the   *)
(* position of the first call that does, 0 when none does.                  *)

\* the steps of each endpoint in the order the code takes them, once the
\* request is validated: the lock, the file accesses and the external calls
\* create_table with the with-block of the lock closed after the migration
\* calls instead of before them
AddProgramLockedMigration ==
    <<"acquire", "read", "truncate", "write", "reload",
      "upgrade", "revision", "upgrade", "release", "reload", "parse", "reload", "respond">>

\* POST /add_table: create_table and add_table_to_models
AddProgram ==
    <<"acquire", "read", "truncate", "write", "reload", "release",
      "upgrade", "revision", "upgrade", "reload", "parse", "reload", "respond">>

\* POST /migrate/edit_table: edit_table_in_models and edit_table
EditProgram ==
    <<"acquire", "read", "release", "writetmp", "replace", "reload",
      "revision", "upgrade", "reload", "parse", "reload", "respond">>

\* POST /migrate/rename_table: rename_table_in_models and rename_table
RenameProgram ==
    <<"acquire", "read", "truncate", "write", "release",
      "upgrade", "revision", "upgrade", "respond">>

\* POST /migrate/delete_table: delete_table_from_models and delete_table
DeleteProgram ==
    <<"read", "truncate", "write", "upgrade", "revision", "upgrade", "respond">>

\* GET /migrate/show_tables: parse_models_file reads the file, then reloads
ShowProgram == <<"parse", "reload", "respond">>

\* the calls that leave the program: the import of models.py and alembic
External == {"reload", "upgrade", "revision"}

ExternalCalls(program) == SelectSeq(program, LAMBDA s : s \in External)

\* the external calls a handler makes once its editor has written the file
CreateCalls == ExternalCalls(AddProgram)
EditCalls   == ExternalCalls(EditProgram)
RenameCalls == ExternalCalls(RenameProgram)
DeleteCalls == ExternalCalls(DeleteProgram)

\* the calls made when the fail-th one raises
Made(calls, fail) == IF fail = 0 THEN calls ELSE SubSeq(calls, 1, fail)

\* the calls that completed
Done(calls, fail) == IF fail = 0 THEN calls ELSE SubSeq(calls, 1, fail - 1)

Has(calls, c) == \E i \in 1..Len(calls) : calls[i] = c

\* reload_models(): the module is evaluated from the file as it is now
AfterReloads(done, written, old) == IF Has(done, "reload") THEN written ELSE old

\* command.revision(autogenerate=True) diffs the declared schema of the
\* imported module against the database: what it saw, <<>> if it did not run
Diffed(done, declared) == IF Has(done, "revision") THEN declared ELSE <<>>

\* a request and its answer: the body sent, the HTTP status, what the editor
\* raised, the external calls made, the model file before the request, the
\* declared schema its autogenerate diffed and the external call that raised
\* ("" when none did)
Response(op, body, status, raised, calls, before, diffed, failed) ==
    [op |-> op, body |-> body, status |-> status, raised |-> raised,
     calls |-> calls, before |-> before, diffed |-> diffed, failed |-> failed]

\* no request is being handled
Idle == Response("none", <<>>, "", NoErr, <<>>, <<>>, <<>>, "")

\* a request rejected by its pydantic model
Rejected(op, body) ==
    /\ req' = Response(op, body, "422", NoErr, <<>>, file, <<>>, "")
    /\ handled' = handled + 1
    /\ UNCHANGED <<file, tmpfile, lock, loaded, procs>>

\* an editor raised: nothing is written and no external call is made
Raised(op, body, status, raised) ==
    /\ req' = Response(op, body, status, raised, <<>>, file, <<>>, "")
    /\ handled' = handled + 1
    /\ UNCHANGED <<file, tmpfile, lock, loaded, procs>>

\* the handler of Edited putting the old lines back when a call raises
EditedRolledBack(op, body, lines, calls, fail) ==
    \E written \in {IF fail = 0 THEN Writelines(lines) ELSE file},
       done \in {Done(calls, fail)} :
        /\ file' = written
        /\ loaded' = AfterReloads(done, written, loaded)
        /\ req' = Response(op, body, IF fail = 0 THEN "200" ELSE "500", NoErr,
                           Made(calls, fail), file,
                           Diffed(done, IF Head(done) = "reload"
                                        THEN written ELSE loaded),
                           IF fail = 0 THEN "" ELSE calls[fail])
        /\ handled' = handled + 1
        /\ UNCHANGED <<tmpfile, lock, procs>>

\* an editor wrote lines and the handler goes on with calls, of which the
\* fail-th raises
Edited(op, body, lines, calls, fail) ==
    \E written \in {Writelines(lines)}, done \in {Done(calls, fail)} :
        /\ file' = written
        /\ loaded' = AfterReloads(done, written, loaded)
        /\ req' = Response(op, body, IF fail = 0 THEN "200" ELSE "500", NoErr,
                           Made(calls, fail), file,
                           Diffed(done, IF Head(done) = "reload"
                                        THEN written ELSE loaded),
                           IF fail = 0 THEN "" ELSE calls[fail])
        /\ handled' = handled + 1
        /\ UNCHANGED <<tmpfile, lock, procs>>

\* what the handlers receive: the body as sent and the request its pydantic
\* model makes of it (<<>> when validation fails)
CreateRequests == {[body |-> b, valid |-> CreateTableRequest(b)] : b \in CreateBodies}
EditRequests   == {[body |-> b, valid |-> EditTableRequest(b)] : b \in EditBodies}
RenameRequests == {[body |-> b, valid |-> RenameTableRequest(b)] : b \in RenameBodies}
DeleteRequests == {[body |-> b, valid |-> DeleteTableRequest(b)] : b \in DeleteBodies}

\* the column dicts create_table passes to add_table_to_models
ColumnDicts(columns) ==
    [i \in 1..Len(columns) |->
        [name |-> columns[i].name, type |-> columns[i].type,
         attributes |-> OrEmpty(columns[i].attributes)]]

\* the status edit_table answers with when edit_table_in_models raises
EditStatus(raised) == IF raised \in {"400", "403", "404"} THEN raised ELSE "500"

\* the status rename_table answers with when rename_table_in_models raises
RenameStatus(raised) == IF raised = ValueErr THEN "404" ELSE "500"

\* POST /add_table, lines 477-521
create_table(q) ==
    IF q.valid = None THEN Rejected("add_table", q.body)
    ELSE \E e \in {AddTableToModels(file, q.valid[1].table_name,
                                    ColumnDicts(q.valid[1].columns))} :
             IF e.raised # NoErr
             THEN Raised("add_table", q.body, "500", e.raised)
             ELSE /\ Len(e.lines) < MaxLines
                  /\ \E fail \in 0..Len(CreateCalls) :
                        Edited("add_table", q.body, e.lines, CreateCalls, fail)

\* lines 864-906 of edit_table: the lists are filtered and handed to
\* edit_table_in_models
EditLists(lines, r) ==
    EditTableInModels(lines, r.table_name,
                      SelectSeq(r.add_columns, LAMBDA c : c.name # "" /\ c.type # ""),
                      SelectSeq(r.edit_columns, LAMBDA c : c.name # ""),
                      SelectSeq(r.delete_columns, LAMBDA c : c # ""))

\* edit_table with the buffer written to the file before the editor raises
edit_table_written_first(q) ==
    IF q.valid = None THEN Rejected("edit_table", q.body)
    ELSE \E e \in EditLists(file, q.valid[1]) :
            IF e.raised # NoErr
            THEN /\ req' = Response("edit_table", q.body, EditStatus(e.raised), e.raised,
                                    <<>>, file, <<>>, "")
                 /\ file' = Writelines(e.lines)
                 /\ handled' = handled + 1
                 /\ UNCHANGED <<tmpfile, lock, loaded, procs>>
            ELSE /\ Len(e.lines) <= MaxLines
                 /\ \E fail \in 0..Len(EditCalls) :
                       Edited("edit_table", q.body, e.lines, EditCalls, fail)

\* POST /migrate/edit_table, lines 859-918
edit_table(q) ==
    IF q.valid = None THEN Rejected("edit_table", q.body)
    ELSE \E e \in EditLists(file, q.valid[1]) :
            IF e.raised # NoErr
            THEN Raised("edit_table", q.body, EditStatus(e.raised), e.raised)
            ELSE /\ Len(e.lines) <= MaxLines
                 /\ \E fail \in 0..Len(EditCalls) :
                       Edited("edit_table", q.body, e.lines, EditCalls, fail)

\* POST /migrate/rename_table, lines 1091-1117
rename_table(q) ==
    IF q.valid = None THEN Rejected("rename_table", q.body)
    ELSE \E e \in {RenameTableInModels(file, q.valid[1].old_name,
                                       q.valid[1].new_name)} :
             IF e.raised # NoErr
             THEN Raised("rename_table", q.body, RenameStatus(e.raised), e.raised)
             ELSE \E fail \in 0..Len(RenameCalls) :
                     Edited("rename_table", q.body, e.lines, RenameCalls, fail)

\* POST /migrate/delete_table, lines 1291-1305
delete_table(q) ==
    \E e \in {DeleteTableFromModels(file, q.valid[1].table_name)} :
        IF e.raised # NoErr
        THEN Raised("delete_table", q.body, "500", e.raised)
        ELSE \E fail \in 0..Len(DeleteCalls) :
                Edited("delete_table", q.body, e.lines, DeleteCalls, fail)

Init ==
    /\ file = ModelsPy
    /\ tmpfile = <<>>
    /\ lock = 0
    /\ loaded = ModelsPy
    /\ req = Idle
    /\ handled = 0
    /\ procs = <<>>

AddTable == req = Idle /\ handled < MaxRequests /\ \E q \in CreateRequests : create_table(q)

EditTable == req = Idle /\ handled < MaxRequests /\ \E q \in EditRequests : edit_table(q)

RenameTable == req = Idle /\ handled < MaxRequests /\ \E q \in RenameRequests : rename_table(q)

DeleteTable == req = Idle /\ handled < MaxRequests /\ \E q \in DeleteRequests : delete_table(q)

\* the response is sent; the server waits for the next request
Reply ==
    /\ req # Idle
    /\ req' = Idle
    /\ UNCHANGED <<file, tmpfile, lock, loaded, handled, procs>>

Next == AddTable \/ EditTable \/ RenameTable \/ DeleteTable \/ Reply

Spec == Init /\ [][Next]_vars

-----------------------------------------------------------------------------
(* POST /add_table on the shipped file, once, over column lists that take    *)
(* the branches of the ColumnDefinition and CreateTableRequest validators.   *)

ColumnSpecs ==
    {RawColumns.id, RawColumns.key, RawColumns.email, RawColumns.nick,
     [name |-> " Full Name ", type |-> " text , 40",
      attributes |-> Some(" nullable = False ,unique=True ")],
     [name |-> "born", type |-> "Date", attributes |-> None],
     [name |-> "size", type |-> "Float", attributes |-> Some("precision=3")],
     [name |-> "pk", type |-> "Integer", attributes |-> Some("primary_key = True")]}

ColumnLists == UNION {[1..n -> ColumnSpecs] : n \in 0..MaxColumns}

ColumnListRequests ==
    {[body |-> b, valid |-> CreateTableRequest(b)] :
        b \in {[table_name |-> t, columns |-> cs] :
                  t \in {"name", " my table "}, cs \in ColumnLists}}

AddTableOnce == req = Idle /\ handled = 0 /\ \E q \in ColumnListRequests : create_table(q)

CreateNext == AddTableOnce \/ Reply

CreateSpec == Init /\ [][CreateNext]_vars

-----------------------------------------------------------------------------
(* The endpoints as the threads of the server's pool run them: each request *)
(* is a thread that takes the steps of its program one at a time, and the   *)
(* steps of different requests interleave.                                  *)

\* the requests the concurrent callers send, already validated
ConcRequests ==
    {[op |-> "add_table",
      r |-> CreateTableRequest([table_name |-> "name",
                                columns |-> <<RawColumns.id>>])[1]],
     [op |-> "edit_table",
      r |-> EditTableRequest([table_name |-> "xs", add_columns |-> <<RawColumns.age>>,
                              delete_columns |-> <<>>, edit_columns |-> <<>>])[1]],
     [op |-> "rename_table",
      r |-> RenameTableRequest([old_name |-> "fff", new_name |-> "name"])[1]],
     [op |-> "delete_table", r |-> DeleteTableRequest([table_name |-> "fff"])[1]],
     [op |-> "show_tables", r |-> [table_name |-> ""]]}

Program(op) ==
    CASE op = "add_table" -> AddProgram
      [] op = "edit_table" -> EditProgram
      [] op = "rename_table" -> RenameProgram
      [] op = "delete_table" -> DeleteProgram
      [] op = "show_tables" -> ShowProgram

\* the editor a request runs on the lines it read: its possible outcomes
Editor(op, r, lines) ==
    CASE op = "add_table" ->
           {AddTableToModels(lines, r.table_name, ColumnDicts(r.columns))}
      [] op = "edit_table" -> EditLists(lines, r)
      [] op = "rename_table" -> {RenameTableInModels(lines, r.old_name, r.new_name)}
      [] op = "delete_table" -> {DeleteTableFromModels(lines, r.table_name)}

\* the status a handler answers with when its editor raises
RaisedStatus(op, raised) ==
    CASE op = "edit_table" -> EditStatus(raised)
      [] op = "rename_table" -> RenameStatus(raised)
      [] op \in {"add_table", "delete_table"} -> "500"

Threads == DOMAIN procs

\* the step thread p takes next, "done" once it has answered
Step(p) ==
    IF procs[p].pc <= Len(Program(procs[p].op))
    THEN Program(procs[p].op)[procs[p].pc] ELSE "done"

\* thread p goes on to its next step as rec
Advance(p, rec) == procs' = [procs EXCEPT ![p] = [rec EXCEPT !.pc = @ + 1]]

\* thread p answers with status and an exception that leaves the with-block
\* does not release the lock
AnswerHoldingLock(p, status) ==
    /\ procs' = [procs EXCEPT ![p] = [@ EXCEPT !.pc = Len(Program(procs[p].op)) + 1,
                                             !.status = status]]
    /\ lock' = lock

\* thread p answers with status: an exception leaves the with-block, which
\* releases the lock the thread holds
Answer(p, status) ==
    /\ procs' = [procs EXCEPT ![p] = [@ EXCEPT !.pc = Len(Program(procs[p].op)) + 1,
                                             !.status = status]]
    /\ lock' = IF lock = p THEN 0 ELSE lock

\* another thread has opened the model file for writing and not written yet
Truncated(p) == \E q \in Threads \ {p} : Step(q) = "write"

\* how many threads have published their edit
Written == Cardinality({q \in Threads : procs[q].wrote > 0})

\* a request arrives and a thread of the pool starts on it
Arrive ==
    /\ Len(procs) < MaxThreads
    /\ \E c \in ConcRequests :
          procs' = Append(procs, [op |-> c.op, r |-> c.r, pc |-> 1, buf |-> <<>>,
                                  status |-> "", diffed |-> <<>>, wrote |-> 0,
                                  torn |-> FALSE])
    /\ handled' = handled + 1
    /\ UNCHANGED <<file, tmpfile, lock, loaded, req>>

\* with FileLock(...): blocks until no thread holds the lock
Acquire ==
    \E p \in Threads :
        /\ Step(p) = "acquire"
        /\ lock = 0
        /\ lock' = p
        /\ Advance(p, procs[p])
        /\ UNCHANGED <<file, tmpfile, loaded, req, handled>>

\* file.readlines() and the editing of the lines in memory
Read ==
    \E p \in Threads :
        /\ Step(p) = "read"
        /\ \E e \in Editor(procs[p].op, procs[p].r, file) :
              IF e.raised # NoErr
              THEN Answer(p, RaisedStatus(procs[p].op, e.raised))
              ELSE /\ Advance(p, [procs[p] EXCEPT !.buf = e.lines,
                                                  !.torn = Truncated(p)])
                   /\ UNCHANGED lock
        /\ UNCHANGED <<file, tmpfile, loaded, req, handled>>

\* open(file_path, "w") empties the model file
Truncate ==
    \E p \in Threads :
        /\ Step(p) = "truncate"
        /\ file' = <<>>
        /\ Advance(p, procs[p])
        /\ UNCHANGED <<tmpfile, lock, loaded, req, handled>>

\* file.writelines(lines) and the close of the file
Write ==
    \E p \in Threads :
        /\ Step(p) = "write"
        /\ file' = Writelines(procs[p].buf)
        /\ Advance(p, [procs[p] EXCEPT !.wrote = Written + 1])
        /\ UNCHANGED <<tmpfile, lock, loaded, req, handled>>

\* lines 851-853: the lines go to models.py.tmp
WriteTmp ==
    \E p \in Threads :
        /\ Step(p) = "writetmp"
        /\ tmpfile' = Writelines(procs[p].buf)
        /\ Advance(p, procs[p])
        /\ UNCHANGED <<file, lock, loaded, req, handled>>

\* os.replace(temp_file_path, file_path); FileNotFoundError when another
\* thread has moved the temp file away
ReplaceTmp ==
    \E p \in Threads :
        /\ Step(p) = "replace"
        /\ IF tmpfile = <<>>
           THEN /\ Answer(p, "500")
                /\ UNCHANGED <<file, tmpfile>>
           ELSE /\ file' = tmpfile
                /\ tmpfile' = <<>>
                /\ Advance(p, [procs[p] EXCEPT !.wrote = Written + 1])
                /\ UNCHANGED lock
        /\ UNCHANGED <<loaded, req, handled>>

\* the with-block of the lock ends
Release ==
    \E p \in Threads :
        /\ Step(p) = "release"
        /\ lock' = 0
        /\ Advance(p, procs[p])
        /\ UNCHANGED <<file, tmpfile, loaded, req, handled>>

\* reload_models(): the module is evaluated from the file as it is now
Reload ==
    \E p \in Threads :
        /\ Step(p) = "reload"
        /\ loaded' = file
        /\ Advance(p, procs[p])
        /\ UNCHANGED <<file, tmpfile, lock, req, handled>>

\* run_migrations("upgrade")
Upgrade ==
    \E p \in Threads :
        /\ Step(p) = "upgrade"
        /\ Advance(p, procs[p])
        /\ UNCHANGED <<file, tmpfile, lock, loaded, req, handled>>

\* generate_migration(): the autogenerate diffs the declared schema
Revision ==
    \E p \in Threads :
        /\ Step(p) = "revision"
        /\ Advance(p, [procs[p] EXCEPT !.diffed = Diffed(<<"revision">>, loaded)])
        /\ UNCHANGED <<file, tmpfile, lock, loaded, req, handled>>

\* parse_models_file reads the model file
Parse ==
    \E p \in Threads :
        /\ Step(p) = "parse"
        /\ Advance(p, [procs[p] EXCEPT !.torn = @ \/ Truncated(p)])
        /\ UNCHANGED <<file, tmpfile, lock, loaded, req, handled>>

\* the handler returns its answer
Respond ==
    \E p \in Threads :
        /\ Step(p) = "respond"
        /\ Advance(p, [procs[p] EXCEPT !.status = "200"])
        /\ UNCHANGED <<file, tmpfile, lock, loaded, req, handled>>

\* an external call raises: the handler answers 500
Fail ==
    \E p \in Threads :
        /\ Step(p) \in External
        /\ Answer(p, "500")
        /\ UNCHANGED <<file, tmpfile, loaded, req, handled>>

ConcInit == Init

ConcNext ==
    \/ Arrive \/ Acquire \/ Read \/ Truncate \/ Write \/ WriteTmp \/ ReplaceTmp
    \/ Release \/ Reload \/ Upgrade \/ Revision \/ Parse \/ Respond \/ Fail

ConcSpec == ConcInit /\ [][ConcNext]_vars

\* thread p can take the next step of its handler: it has not answered, and
\* at "acquire" no thread holds the lock
CanStep(p) ==
    /\ Step(p) # "done"
    /\ Step(p) = "acquire" => lock = 0

\* the threads of the pool keep running: as long as some thread can take a
\* step, some thread takes one.  This is weak fairness of the threads' steps,
\* with ENABLED written out as CanStep.
LiveSpec ==
    /\ ConcSpec
    /\ \/ []<>~(\E p \in Threads : CanStep(p))
       \/ []<><<\E p \in Threads : procs'[p].pc # procs[p].pc>>_vars

-----------------------------------------------------------------------------
(* The claims *)

Structural == {"add_table", "edit_table", "rename_table", "delete_table"}

\* the file holds a class statement for exactly this class name
Declares(lines, class_name) ==
    \E i \in 1..Len(lines) : IsClassDef(lines[i]) /\ ClassName(lines[i]) = class_name

\* the table the request in req names, as its pydantic model hands it on
NamedTable ==
    IF req.op = "rename_table" THEN TableName(req.body.old_name)[1]
    ELSE IF req.op = "add_table" THEN TableName(req.body.table_name)[1]
    ELSE Capitalize(req.body.table_name)

\* the columns the inventory lists for the table of this class name
ColumnsOf(lines, class_name) ==
    LET tables == ParseModelsFile(lines)
    IN  UNION {{tables[i].columns[k] : k \in 1..Len(tables[i].columns)} :
                 i \in {j \in 1..Len(tables) : tables[j].table_name = Lower(class_name)}}

\* thread p has read the model file and has not yet published what it will
\* write in its place
Between(p) ==
    LET program == Program(procs[p].op)
    IN  \E i, j \in 1..Len(program) :
           /\ program[i] = "read"
           /\ program[j] \in {"write", "replace"}
           /\ i < procs[p].pc
           /\ procs[p].pc <= j

\* C1: no two requests are at the same time between their read of the model
\* file and their write of it
C1_ExclusiveFromReadToWrite ==
    \A p, q \in Threads : p # q => ~(Between(p) /\ Between(q))

\* C2: no reader (a request's read, or the parse of show_tables and of the
\* handlers) ever reads the model file while a writer has emptied it and not
\* yet written its lines
C2_NoTruncatedRead == \A p \in Threads : ~procs[p].torn

\* the migration commands among the calls a handler made
Migrations(calls) == SelectSeq(calls, LAMBDA c : c \in {"upgrade", "revision"})

\* C3: every structural request that succeeds has run, after its edit,
\* exactly upgrade, autogenerate, upgrade
C3_UpgradeAutogenerateUpgrade ==
    (req.op \in Structural /\ req.status = "200")
        => Migrations(req.calls) = <<"upgrade", "revision", "upgrade">>

\* C4: a thread that is at one of its migration commands does not hold the
\* model-file lock
C4_MigrationOutsideLock ==
    \A p \in Threads : Step(p) \in {"upgrade", "revision"} => lock # p

\* C4, the interleaving: thread b published its edit after thread a published
\* its own, and the autogenerate of a diffed the schema b declared (neither
\* of the two having read an emptied file)
C4_AutogenerateSawOtherEdit ==
    \E a, b \in Threads :
        /\ {procs[a].op, procs[b].op} \subseteq Structural
        /\ ~procs[a].torn /\ ~procs[b].torn
        /\ procs[a].wrote > 0
        /\ procs[b].wrote > procs[a].wrote
        /\ procs[a].diffed = Writelines(procs[b].buf)
        /\ procs[a].diffed # Writelines(procs[a].buf)

\* C5: add_table for a class the file already declares answers 400, leaves
\* the file as it was and runs no migration command
C5_DuplicateAddIsConflict ==
    (/\ req.op = "add_table"
     /\ req.status # "422"
     /\ Declares(req.before, NamedTable))
        => (req.status = "400" /\ file = req.before /\ req.calls = <<>>)

\* C6: edit_table whose delete_columns names a column of the table that
\* carries the primary-key marker answers 400 and leaves the file (and so
\* the inventory parsed from it) as it was
C6_PrimaryKeyDeleteIsConflict ==
    (/\ req.op = "edit_table"
     /\ req.status # "422"
     /\ \E i \in 1..Len(req.body.delete_columns) :
           \E c \in ColumnsOf(req.before, NamedTable) :
               /\ c.name = req.body.delete_columns[i]
               /\ Contains(c.attributes, PrimaryKeyMarker))
        => (/\ req.status = "400"
            /\ file = req.before
            /\ ParseModelsFile(file) = ParseModelsFile(req.before))

\* C7: edit_table, rename_table and delete_table of a table the file does
\* not declare answer 404 and leave the file as it was
C7_AbsentTableIsNotFound ==
    (/\ req.op \in {"edit_table", "rename_table", "delete_table"}
     /\ req.status # "422"
     /\ ~Declares(req.before, NamedTable))
        => (req.status = "404" /\ file = req.before)

\* the names of the columns an edit_table body refers to in delete_columns
\* and edit_columns, as its pydantic model hands them on
NamedColumns(body) ==
    {body.delete_columns[i] : i \in 1..Len(body.delete_columns)}
      \cup {SqlIdentifier(body.edit_columns[i].name)[1] :
               i \in 1..Len(body.edit_columns)}

\* C8: edit_table of a declared table that names, in delete_columns or in
\* edit_columns, a column the table does not declare answers 404 and leaves
\* the file as it was (requests that also delete a primary key aside)
C8_MissingColumnIsNotFound ==
    (/\ req.op = "edit_table"
     /\ req.status \notin {"422", "400"}
     /\ Declares(req.before, NamedTable)
     /\ \E n \in NamedColumns(req.body) :
           \A c \in ColumnsOf(req.before, NamedTable) : c.name # n)
        => (req.status = "404" /\ file = req.before)

\* the class header and the table-name attribute of this class name are both
\* in the file, as rename_table_in_models looks for them
Present(lines, class_name) ==
    /\ \E i \in 1..Len(lines) : ClassPattern(lines[i], class_name)
    /\ \E i \in 1..Len(lines) : TablenamePattern(lines[i], Lower(class_name))

\* neither of them is in the file
Gone(lines, class_name) ==
    /\ ~\E i \in 1..Len(lines) : ClassPattern(lines[i], class_name)
    /\ ~\E i \in 1..Len(lines) : TablenamePattern(lines[i], Lower(class_name))

\* C9: rename_table(A, B) with A absent answers 404 and leaves the file as it
\* was; with A present the file it writes has the class header of B and the
\* table-name attribute of lowercase B, and nothing of A (for A other than B)
C9_RenameAllOrNothing ==
    (req.op = "rename_table" /\ req.status # "422")
        => LET A == TableName(req.body.old_name)[1]
               B == TableName(req.body.new_name)[1]
           IN  IF ~Present(req.before, A)
               THEN req.status = "404" /\ file = req.before
               ELSE Present(file, B) /\ (A # B => Gone(file, A))

\* C10: no two class statements of the model file declare the same table
C10_UniqueTableNames ==
    \A i, j \in 1..Len(file) :
        (i < j /\ IsClassDef(file[i]) /\ IsClassDef(file[j]))
            => Lower(ClassName(file[i])) # Lower(ClassName(file[j]))

-----------------------------------------------------------------------------
(* Block structure and the round trip through the parser *)

\* the 1-based index after the block of the class line i: the first blank line
\* after it, Len(lines) + 1 when there is none
BlockEnd(lines, i) ==
    LET blanks == {j \in i..Len(lines) : Strip(lines[j]) = ""}
    IN  IF blanks = {} THEN Len(lines) + 1
        ELSE CHOOSE j \in blanks : \A k \in blanks : j <= k

\* C11: in every file the endpoints leave behind, each class line opens a block
\* that runs to the next blank line (or the end of the file) and holds the
\* table-name line of that table, and every column line lies inside a block
C11_BlockStructure ==
    /\ \A i \in 1..Len(file) :
          IsClassDef(file[i])
            => \E j \in (i + 1)..(BlockEnd(file, i) - 1) :
                  StartsWith(Strip(file[j]), "__tablename__ = ")
    /\ \A j \in 1..Len(file) :
          Contains(file[j], " = Column(")
            => \E i \in 1..Len(file) :
                  IsClassDef(file[i]) /\ i < j /\ j < BlockEnd(file, i)

\* the fragments of an attribute string
Fragments(attributes) ==
    LET parts == StripAll(Split(attributes, ","))
    IN  {parts[i] : i \in 1..Len(parts)} \ {""}

\* C12: after a successful add_table of T the inventory parsed from the file
\* holds T in lowercase with exactly the validated columns of the request, in
\* order, each with its name, its type and the fragments of its attributes
C12_AddParseRoundTrip ==
    (req.op = "add_table" /\ req.status = "200")
        => LET r == CreateTableRequest(req.body)[1]
               tables == ParseModelsFile(file)
           IN  \E i \in 1..Len(tables) :
                  /\ tables[i].table_name = Lower(r.table_name)
                  /\ Len(tables[i].columns) = Len(r.columns)
                  /\ \A k \in 1..Len(r.columns) :
                        /\ tables[i].columns[k].name = r.columns[k].name
                        /\ tables[i].columns[k].type = r.columns[k].type
                        /\ Fragments(tables[i].columns[k].attributes)
                             = Fragments(OrEmpty(r.columns[k].attributes))

-----------------------------------------------------------------------------
(* Create-table validation *)

\* the columns of a create body whose attributes, as sent, hold the marker
MarkedColumns(body) ==
    {i \in 1..Len(body.columns) :
        /\ Field(body.columns[i], "attributes") # None
        /\ Contains(body.columns[i].attributes[1], PrimaryKeyMarker)}

\* the table name and every single column of a create body pass their own
\* validators
OtherwiseValid(body) ==
    /\ TableName(body.table_name) # None
    /\ \A i \in 1..Len(body.columns) : ColumnDefinition(body.columns[i]) # None

\* C13: a create request none of whose columns holds the primary-key marker is
\* rejected by validation, and one that is otherwise valid and has exactly one
\* column holding it is not
C13_PrimaryKeyRequired ==
    req.op = "add_table"
        => /\ MarkedColumns(req.body) = {} => req.status = "422"
           /\ (OtherwiseValid(req.body) /\ Cardinality(MarkedColumns(req.body)) = 1)
                 => req.status # "422"

\* two valid columns, neither marked, were sent and rejected
C13_UnmarkedColumnsRejected ==
    /\ req.op = "add_table"
    /\ req.status = "422"
    /\ OtherwiseValid(req.body)
    /\ Len(req.body.columns) >= 2
    /\ MarkedColumns(req.body) = {}

\* the lines add_table_to_models appended that hold the primary-key marker
WrittenMarked ==
    {j \in (Len(req.before) + 1)..Len(file) : Contains(file[j], PrimaryKeyMarker)}

\* add_table_to_models wrote the table of the request in req
TableWritten == req.op = "add_table" /\ req.status # "422" /\ req.raised = NoErr

\* C14, as stated: every table add_table writes has exactly one column
\* holding the primary-key marker
C14_ExactlyOnePrimaryKey == TableWritten => Cardinality(WrittenMarked) = 1

\* C14, amended: every table add_table writes has at least one column holding
\* the primary-key marker
C14_AtLeastOnePrimaryKey == TableWritten => Cardinality(WrittenMarked) >= 1

\* a table with two marked columns was written
C14_TwoPrimaryKeysWritten ==
    TableWritten /\ req.status = "200" /\ Cardinality(WrittenMarked) = 2

-----------------------------------------------------------------------------
(* Failures after and before the write *)

\* the request in req as its pydantic model hands it to the handler
Validated ==
    CASE req.op = "add_table" -> CreateTableRequest(req.body)[1]
      [] req.op = "edit_table" -> EditTableRequest(req.body)[1]
      [] req.op = "rename_table" -> RenameTableRequest(req.body)[1]
      [] req.op = "delete_table" -> DeleteTableRequest(req.body)[1]

C16_FailedEditLeavesFile ==
    (req.op = "edit_table" /\ req.raised # NoErr) => file = req.before

\* an edit_table that adds a column to a declared table was answered 404 for a
\* column of edit_columns that is not there: the buffer already held the added
\* line when the editor raised
C16_RaisedAfterBufferChanged ==
    /\ req.op = "edit_table"
    /\ req.raised = "404"
    /\ Declares(req.before, NamedTable)
    /\ req.body.add_columns # <<>>
    /\ req.body.edit_columns # <<>>

-----------------------------------------------------------------------------
(* Reload after a mutation *)

\* C17: when a structural request has been answered 200, the models module the
\* process has loaded is the file on disk
C17_ReloadedBeforeSuccess ==
    (req.op \in Structural /\ req.status = "200") => loaded = file

-----------------------------------------------------------------------------
(* Column normalization *)

\* C18: every column of a create body that ColumnDefinition accepts is accepted
\* again when its validated name, type and attributes are sent back, and comes
\* out the same
C18_NormalizationIdempotent ==
    req.op = "add_table"
        => \A i \in 1..Len(req.body.columns) :
              LET v == ColumnDefinition(req.body.columns[i])
              IN  v # None => ColumnDefinition(v[1]) = v

-----------------------------------------------------------------------------
(* Where edit_table puts and changes lines *)

\* the names of the columns the inventory lists for the first table of this
\* class name, in file order
ColumnNames(lines, class_name) ==
    LET tables == ParseModelsFile(lines)
        named == {i \in 1..Len(tables) : tables[i].table_name = Lower(class_name)}
        first == CHOOSE i \in named : \A j \in named : i <= j
    IN  [k \in 1..Len(tables[first].columns) |-> tables[first].columns[k].name]

\* C19: after an edit_table that adds columns to a declared table, the added
\* columns are the last columns of that table, in the order of the request
C19_AddedColumnsLast ==
    (/\ req.op = "edit_table"
     /\ req.status # "422"
     /\ req.raised = NoErr
     /\ Declares(req.before, NamedTable))
        => LET adds == Validated.add_columns
               names == ColumnNames(file, NamedTable)
               n == Len(names)
           IN  /\ Len(adds) <= n
               /\ \A k \in 1..Len(adds) : names[n - Len(adds) + k] = adds[k].name

\* the lines that lie in no block of a class of this name, in file order
Outside(lines, class_name) ==
    LET heads == {i \in 1..Len(lines) :
                    IsClassDef(lines[i]) /\ ClassName(lines[i]) = class_name}
        out == {j \in 1..Len(lines) :
                  \A i \in heads : j < i \/ j >= BlockEnd(lines, i)}
        RECURSIVE From(_)
        From(j) == IF j > Len(lines) THEN <<>>
                   ELSE (IF j \in out THEN <<lines[j]>> ELSE <<>>) \o From(j + 1)
    IN  From(1)

\* C20: an edit_table of a declared table T leaves every line outside the
\* block of T as it was
C20_EditTouchesOnlyItsBlock ==
    (/\ req.op = "edit_table"
     /\ req.status # "422"
     /\ req.raised = NoErr
     /\ Declares(req.before, NamedTable))
        => Outside(file, NamedTable) = Outside(req.before, NamedTable)

\* C21: an edit_table of a declared table whose edit_columns are all declared
\* in that table and not among its delete_columns finds every one of them: it
\* is not answered as column not found, and the edit loop does not fail on an
\* index
C21_DeclaredColumnIsFound ==
    (/\ req.op = "edit_table"
     /\ req.status # "422"
     /\ Declares(req.before, NamedTable)
     /\ Validated.edit_columns # <<>>
     /\ \A k \in 1..Len(Validated.edit_columns) :
           /\ \E c \in ColumnsOf(req.before, NamedTable) :
                 c.name = Validated.edit_columns[k].name
           /\ ~Has(Validated.delete_columns, Validated.edit_columns[k].name))
        => req.raised \in {NoErr, "400"}

-----------------------------------------------------------------------------
(* Lookup by class name *)

\* C22: add_table, edit_table and delete_table of a name T that no class of
\* the file bears act as for an absent table, also when the name of a declared
\* class begins with T: the editor of add_table writes the table, those of
\* edit_table and delete_table raise 404 and the file stays as it was
C22_ExactNameLookup ==
    (/\ req.op \in {"add_table", "edit_table", "delete_table"}
     /\ req.status # "422"
     /\ ~Declares(req.before, NamedTable))
        => IF req.op = "add_table"
           THEN req.raised = NoErr /\ Declares(file, NamedTable)
           ELSE req.raised = "404" /\ file = req.before

-----------------------------------------------------------------------------
(* Concurrent requests *)

\* C23: when two structural requests on different tables have both been
\* answered 200, the model file holds the change of each
C23_NoLostUpdate ==
    LET Targets(c) ==
            IF c.op = "rename_table" THEN {c.r.old_name, c.r.new_name}
            ELSE {c.r.table_name}
        Applied(c) ==
            CASE c.op = "add_table" -> Declares(file, c.r.table_name)
              [] c.op = "edit_table" ->
                   \A k \in 1..Len(c.r.add_columns) :
                      \E i \in 1..Len(file) :
                         IsColumnLine(file[i], c.r.add_columns[k].name)
              [] c.op = "rename_table" ->
                   Declares(file, c.r.new_name) /\ ~Declares(file, c.r.old_name)
              [] c.op = "delete_table" -> ~Declares(file, c.r.table_name)
    IN  \A p, q \in Threads :
           (/\ p # q
            /\ procs[p].op \in Structural /\ procs[q].op \in Structural
            /\ procs[p].status = "200" /\ procs[q].status = "200"
            /\ Targets(procs[p]) \cap Targets(procs[q]) = {})
               => Applied(procs[p]) /\ Applied(procs[q])

-----------------------------------------------------------------------------
(* Primary keys and merged attributes *)

\* C24: in every file the endpoints leave behind, the block of each class
\* line holds a column line with the primary-key marker
C24_PrimaryKeysPersist ==
    \A i \in 1..Len(file) :
        IsClassDef(file[i])
          => \E j \in (i + 1)..(BlockEnd(file, i) - 1) :
                /\ Contains(file[j], " = Column(")
                /\ Contains(file[j], PrimaryKeyMarker)

\* an edit_table that names delete_columns was answered 200 and took a line
\* out of the file
C24_ColumnDeleted ==
    /\ req.op = "edit_table"
    /\ req.status = "200"
    /\ req.body.delete_columns # <<>>
    /\ Len(file) < Len(req.before)

\* C25: after an edit_table that gives new_attributes for a column, no
\* attribute key occurs twice in the line of that column
C25_AttributeKeysOnce ==
    (req.op = "edit_table" /\ req.status # "422" /\ req.raised = NoErr)
        => \A k \in 1..Len(Validated.edit_columns), j \in 1..Len(file) :
              (/\ Validated.edit_columns[k].new_attributes # None
               /\ IsColumnLine(file[j],
                               IF Validated.edit_columns[k].new_name # None
                               THEN Validated.edit_columns[k].new_name[1]
                               ELSE Validated.edit_columns[k].name))
                 => LET frags == Fragments(ParsedColumn(file[j])[1].attributes)
                    IN  Cardinality({SplitOnce(f, "=")[1] : f \in frags})
                          = Cardinality(frags)

-----------------------------------------------------------------------------
(* The lock *)

\* C26: a thread that holds the model-file lock releases it, also when its
\* editor or its reload raises inside the with-block, and a thread waiting
\* for the lock acquires it
C26_LockReleased ==
    \A p \in 1..MaxThreads :
        /\ (lock = p) ~> (lock # p)
        /\ (p \in Threads /\ Step(p) = "acquire")
              ~> (p \in Threads /\ Step(p) # "acquire")

\* the editor of a thread raised inside the with-block, the thread has
\* answered and the lock is free
C26_RaisedInsideLock ==
    \E p \in Threads :
        /\ procs[p].op \in {"add_table", "rename_table"}
        /\ procs[p].status \in {"404", "500"}
        /\ procs[p].buf = <<>>
        /\ Step(p) = "done"
        /\ lock = 0

=============================================================================
